---- MODULE Spec2Model ----
(***************************************************************************)
(* YUYV packed to YUV420 planar conversion                                 *)
(* (internal/color/yuyv_to_yuv420p.c).                                     *)
(*                                                                         *)
(* The model follows the C code statement by statement.  An invocation of  *)
(* yuyv_to_yuv420p is a process with a program counter; every memory read  *)
(* and every memory write of the portable path is a step of its own, and   *)
(* every NEON intrinsic of the vectorized path is a step of its own.       *)
(* Both builds of the file (with and without __ARM_NEON) are modelled; the *)
(* build is fixed when the invocation starts.                              *)
(*                                                                         *)
(* Pointers are byte offsets from the base of the buffer the caller        *)
(* passed.  Each buffer is modelled together with the memory that follows  *)
(* it, so that an access past the end of a buffer is an access the model   *)
(* performs and records, not one it hides.  What such an access returns or *)
(* clobbers is not defined by C; the properties below that cover such runs *)
(* speak only of WHICH bytes are accessed, never of the resulting content. *)
(***************************************************************************)
EXTENDS Integers, Sequences, FiniteSets, TLC

(* ------------------------------ bounds -------------------------------- *)

\* Single-invocation runs: heights -1 .. MaxHeight, widths 1 .. MaxWidth.
MaxHeight == 4
MaxWidth == 4
\* Two calls one after the other: 1 .. PairMaxPairs row pairs, strides of
\* 1 .. PairMaxBlocks blocks.
PairMaxPairs == 2
PairMaxBlocks == 2
\* Two concurrent calls: heights 1 .. ConcMaxHeight, rows of 1 .. ConcMaxGroups
\* groups of two pixels.
ConcMaxHeight == 2
ConcMaxGroups == 2

Procs == {1, 2}

(* ------------------------- program constants -------------------------- *)

\* for (...; i += 4): bytes of one [Y0,U,Y1,V] group (portable path)
GroupBytes == 4

\* for (...; i += 32), yuyv += 32: bytes of one block (vectorized path)
BlockBytes == 32

\* vld2q_u8 / vst1q_u8: lanes of a 128-bit register
QLanes == 16
\* vld2_u8 / vst1_u8: lanes of a 64-bit register
DLanes == 8

\* for (...; row += 2)
RowStep == 2

(* ------------------------------ helpers ------------------------------- *)

Max(a, b) == IF a >= b THEN a ELSE b

\* C integer division: truncation toward zero.
CDiv(a, b) == IF a >= 0 THEN a \div b ELSE -((-a) \div b)

\* y += stride / 2 (after each row)
LumaAdvanceQuarter(s) == CDiv(s, 4)
LumaAdvance(s) == CDiv(s, 2)

\* u += stride / 4; v += stride / 4 (after an even row only)
ChromaAdvanceHalf(s) == CDiv(s, 2)
ChromaAdvance(s) == CDiv(s, 4)

\* yuyv += stride (after each row)
SourceAdvance(s) == s

\* Loop conditions: row < height, i < stride.
RowCondLeq(r, h) == r <= h
RowCond(r, h) == r < h

ColCondLeq(j, s) == j <= s
ColCond(j, s) == j < s

\* Destination of the k-th statement of the portable loop bodies.
\*   unpack_even: *y++ = *yuyv++; *u++ = *yuyv++; *y++ = *yuyv++; *v++ = *yuyv++;
\*   unpack_odd:  *y++ = *yuyv++; yuyv++;         *y++ = *yuyv++; yuyv++;
EvenDstSwapped == <<"y", "v", "y", "u">>
EvenDst == <<"y", "u", "y", "v">>

OddDstChroma == <<"y", "u", "y", "v">>
OddDst == <<"y", "skip", "y", "skip">>

\* The automatic (per-invocation) storage of an invocation's temporaries and
\* vector registers: each invocation has its own.
LocalShared(p) == 1
Local(p) == p

\* vld2: de-interleaving load of 2*n bytes at mem[base ..]: val[0] gets the
\* bytes at even offsets, val[1] the bytes at odd offsets.
Vld2Swapped(mem, base, n) ==
    << [j \in 0..(n - 1) |-> mem[base + 2 * j + 1]],
       [j \in 0..(n - 1) |-> mem[base + 2 * j]] >>
Vld2(mem, base, n) ==
    << [j \in 0..(n - 1) |-> mem[base + 2 * j]],
       [j \in 0..(n - 1) |-> mem[base + 2 * j + 1]] >>

\* vst1: store of the n lanes of vec at mem[base ..].
Vst1(mem, base, vec, n) ==
    [a \in DOMAIN mem |->
        IF a >= base /\ a < base + n THEN vec[a - base] ELSE mem[a]]

\* One more write recorded at each address base .. base+n-1.
Logged(cnt, base, n) ==
    [a \in DOMAIN cnt |->
        IF a >= base /\ a < base + n THEN cnt[a] + 1 ELSE cnt[a]]

ZeroVec(n) == [j \in 0..(n - 1) |-> 0]

\* Loop increments: row += 2, i += 4, i += 32.
NextRow(r) == r + RowStep

NextCol(j) == j + GroupBytes

NextBlockHalf(j) == j + QLanes
NextBlock(j) == j + BlockBytes

(* ------------------------------- state -------------------------------- *)

VARIABLES
    neon,       \* [p]: TRUE when the build defines __ARM_NEON
    stride,     \* [p]: argument stride
    height,     \* [p]: argument height
    packed,     \* [p]: memory at argument yuyv (the packed source)
    lumaPlane,  \* [p]: memory at argument y
    uPlane,     \* [p]: memory at argument u
    vPlane,     \* [p]: memory at argument v
    pc,         \* [p]: position of the invocation in the code
    result,     \* [p]: "running" until the call returns, then "returned"
    row,        \* [p]: yuyv_to_yuv420p: loop variable row
    y, u, v,    \* [p]: yuyv_to_yuv420p: the plane pointers (offsets)
    yuyv,       \* [p]: yuyv_to_yuv420p: the source pointer (offset)
    i,          \* [p]: unpack_even / unpack_odd: loop variable i
    k,          \* [p]: portable path: statement of the loop body, 1..4
    cy, cu, cv, \* [p]: unpack_even / unpack_odd: parameters y, u, v
    cyuyv,      \* [p]: unpack_even / unpack_odd: parameter yuyv
    tmp,        \* [slot]: the byte loaded by *yuyv++, not yet stored
    y_uv,       \* [slot]: uint8x16x2_t y_uv
    u_v,        \* [slot]: uint8x8x2_t u_v
    rd,         \* [p]: history: source offsets read so far
    wrY,        \* [p]: history: number of writes to each luma offset
    wrU,        \* [p]: history: number of writes to each U offset
    wrV,        \* [p]: history: number of writes to each V offset
    evens,      \* [p]: history: calls of unpack_even so far
    odds,       \* [p]: history: calls of unpack_odd so far
    blocks,     \* [p]: history: loop iterations of the current row call
    packed0     \* [p]: history: the source as it was when the call began

args == <<neon, stride, height>>
planes == <<lumaPlane, uPlane, vPlane>>
outer == <<row, y, u, v, yuyv>>
inner == <<i, k, cy, cu, cv, cyuyv>>
regs == <<tmp, y_uv, u_v>>
writes == <<wrY, wrU, wrV>>
calls == <<evens, odds>>
vars == <<args, packed, planes, pc, result, outer, inner, regs, rd, writes,
          calls, blocks, packed0>>

(* ------------------------------- inputs ------------------------------- *)

\* Bytes of memory modelled at argument yuyv, y, u (and v) for a call with the
\* given stride and height: the frame the caller allocated and what follows it.
PackedLen(s, h) == (Max(h, 0) + 3) * Max(s, 0) + 2 * BlockBytes
LumaLen(s, h) == (Max(h, 0) + 3) * CDiv(Max(s, 0), 2) + 2 * QLanes
ChromaLen(s, h) == (Max(h, 0) + 3) * CDiv(Max(s, 0), 4) + 2 * DLanes

\* Source contents.  "tagged": every byte holds its own offset, so that an
\* output byte names the source byte it was copied from.  "solid": the
\* solid-colour frame Y=100, U=128, V=64.  "minimal": the rows of the 4x2
\* frame [100,128,101,64,102,128,103,64], [110,0,111,0,112,0,113,0], repeated.
Contents == {"tagged", "solid", "minimal"}
MinimalFrame ==
    <<100, 128, 101, 64, 102, 128, 103, 64, 110, 0, 111, 0, 112, 0, 113, 0>>
SolidGroup == <<100, 128, 100, 64>>
Content(c, n) ==
    [a \in 0..(n - 1) |->
        CASE c = "tagged" -> a % 256
          [] c = "solid" -> SolidGroup[(a % 4) + 1]
          [] OTHER -> MinimalFrame[(a % 16) + 1]]

\* The source f with the byte at offset q changed (q = -1: unchanged).
Perturbed(f, q) ==
    IF q \in DOMAIN f THEN [f EXCEPT ![q] = (@ + 129) % 256] ELSE f

\* What the output planes hold before the call.
Fills == {0, 255}

\* Strides of the single-invocation runs: 2 * width for the small widths and
\* for widths around one and two blocks, and the non-positive strides 0, -4.
Strides ==
    {-GroupBytes, 0} \cup {2 * w : w \in 1..MaxWidth}
        \cup {BlockBytes, BlockBytes + GroupBytes, 2 * BlockBytes}
Heights == (-1)..MaxHeight

\* The state in which invocation p is at start[p]: "row_loop", about to
\* execute its first statement; "waiting", to be called later; or "idle",
\* never called.  Its arguments are n[p] (the build), s[p], h[p], its source is
\* src[p] and its output planes are filled with fill[p].  The locals hold
\* nothing yet and the histories are empty.
Setup(start, n, s, h, src, fill) ==
    /\ neon = n /\ stride = s /\ height = h
    /\ packed = src /\ packed0 = src
    /\ lumaPlane = [p \in Procs |->
          IF start[p] # "idle" THEN [a \in 0..(LumaLen(s[p], h[p]) - 1) |-> fill[p]]
          ELSE << >>]
    /\ uPlane = [p \in Procs |->
          IF start[p] # "idle" THEN [a \in 0..(ChromaLen(s[p], h[p]) - 1) |-> fill[p]]
          ELSE << >>]
    /\ vPlane = [p \in Procs |->
          IF start[p] # "idle" THEN [a \in 0..(ChromaLen(s[p], h[p]) - 1) |-> fill[p]]
          ELSE << >>]
    /\ pc = start
    /\ result = [p \in Procs |->
          IF start[p] = "row_loop" THEN "running" ELSE "none"]
    /\ row = [p \in Procs |-> 0]
    /\ y = [p \in Procs |-> 0] /\ u = [p \in Procs |-> 0]
    /\ v = [p \in Procs |-> 0] /\ yuyv = [p \in Procs |-> 0]
    /\ i = [p \in Procs |-> 0] /\ k = [p \in Procs |-> 1]
    /\ cy = [p \in Procs |-> 0] /\ cu = [p \in Procs |-> 0]
    /\ cv = [p \in Procs |-> 0] /\ cyuyv = [p \in Procs |-> 0]
    /\ tmp = [p \in Procs |-> 0]
    /\ y_uv = [p \in Procs |-> <<ZeroVec(QLanes), ZeroVec(QLanes)>>]
    /\ u_v = [p \in Procs |-> <<ZeroVec(DLanes), ZeroVec(DLanes)>>]
    /\ rd = [p \in Procs |-> {}]
    /\ wrY = [p \in Procs |->
          IF start[p] # "idle" THEN [a \in 0..(LumaLen(s[p], h[p]) - 1) |-> 0] ELSE << >>]
    /\ wrU = [p \in Procs |->
          IF start[p] # "idle" THEN [a \in 0..(ChromaLen(s[p], h[p]) - 1) |-> 0] ELSE << >>]
    /\ wrV = [p \in Procs |->
          IF start[p] # "idle" THEN [a \in 0..(ChromaLen(s[p], h[p]) - 1) |-> 0] ELSE << >>]
    /\ evens = [p \in Procs |-> 0] /\ odds = [p \in Procs |-> 0]
    /\ blocks = [p \in Procs |-> 0]

\* One call of yuyv_to_yuv420p, on any build, geometry and source content.
Init ==
    \E n \in BOOLEAN, s \in Strides, h \in Heights, c \in Contents,
       fill \in Fills :
        Setup(<<"row_loop", "idle">>, <<n, FALSE>>, <<s, 0>>, <<h, 0>>,
              <<Content(c, PackedLen(s, h)), << >> >>, <<fill, 0>>)

(* ------------------------- yuyv_to_yuv420p ---------------------------- *)

Upd(f, p, val) == [f EXCEPT ![p] = val]

\* for (int row = 0; row < height; row += 2): the loop test.  When it holds,
\* unpack_even(y, u, v, yuyv, stride) is called: the arguments are copied into
\* the callee's parameters and its loop variable i starts at 0.  When it fails,
\* the function returns.
RowLoop(p) ==
    /\ pc[p] = "row_loop"
    /\ IF RowCond(row[p], height[p])
       THEN /\ cy' = Upd(cy, p, y[p])
            /\ cu' = Upd(cu, p, u[p])
            /\ cv' = Upd(cv, p, v[p])
            /\ cyuyv' = Upd(cyuyv, p, yuyv[p])
            /\ i' = Upd(i, p, 0)
            /\ evens' = Upd(evens, p, evens[p] + 1)
            /\ blocks' = Upd(blocks, p, 0)
            /\ pc' = Upd(pc, p, "even_loop")
            /\ UNCHANGED result
       ELSE /\ pc' = Upd(pc, p, "done")
            /\ result' = Upd(result, p, "returned")
            /\ UNCHANGED <<cy, cu, cv, cyuyv, i, evens, blocks>>
    /\ UNCHANGED <<args, packed, planes, outer, k, regs, rd, writes, odds,
                   packed0>>

\* unpack_even has returned: y += stride / 2; u += stride / 4; v += stride / 4;
\* yuyv += stride; then unpack_odd(y, yuyv, stride) is called.
EvenReturn(p) ==
    /\ pc[p] = "even_ret"
    /\ y' = Upd(y, p, y[p] + LumaAdvance(stride[p]))
    /\ u' = Upd(u, p, u[p] + ChromaAdvance(stride[p]))
    /\ v' = Upd(v, p, v[p] + ChromaAdvance(stride[p]))
    /\ yuyv' = Upd(yuyv, p, yuyv[p] + SourceAdvance(stride[p]))
    /\ cy' = Upd(cy, p, y'[p])
    /\ cyuyv' = Upd(cyuyv, p, yuyv'[p])
    /\ i' = Upd(i, p, 0)
    /\ odds' = Upd(odds, p, odds[p] + 1)
    /\ blocks' = Upd(blocks, p, 0)
    /\ pc' = Upd(pc, p, "odd_loop")
    /\ UNCHANGED <<args, packed, planes, result, row, k, cu, cv, regs, rd,
                   writes, evens, packed0>>

\* unpack_odd has returned: y += stride / 2; yuyv += stride; row += 2.
OddReturn(p) ==
    /\ pc[p] = "odd_ret"
    /\ y' = Upd(y, p, y[p] + LumaAdvance(stride[p]))
    /\ yuyv' = Upd(yuyv, p, yuyv[p] + SourceAdvance(stride[p]))
    /\ row' = Upd(row, p, NextRow(row[p]))
    /\ pc' = Upd(pc, p, "row_loop")
    /\ UNCHANGED <<args, packed, planes, result, u, v, inner, regs, rd,
                   writes, calls, blocks, packed0>>

(* ---------------------- portable path: statements --------------------- *)

\* The right-hand side *yuyv++: the byte at the callee's source pointer is
\* loaded and the pointer advances.
Load(p, next) ==
    /\ tmp' = Upd(tmp, Local(p), packed[p][cyuyv[p]])
    /\ rd' = Upd(rd, p, rd[p] \cup {cyuyv[p]})
    /\ cyuyv' = Upd(cyuyv, p, cyuyv[p] + 1)
    /\ pc' = Upd(pc, p, next)
    /\ UNCHANGED <<args, packed, planes, result, outer, i, k, cy, cu, cv,
                   y_uv, u_v, writes, calls, blocks, packed0>>

\* The left-hand side *y++ = (or *u++ =, *v++ =): the loaded byte is stored at
\* the callee's plane pointer and the pointer advances.
Store(p, dst) ==
    /\ dst = "y" =>
          /\ lumaPlane' = [lumaPlane EXCEPT ![p][cy[p]] = tmp[Local(p)]]
          /\ wrY' = Upd(wrY, p, Logged(wrY[p], cy[p], 1))
          /\ cy' = Upd(cy, p, cy[p] + 1)
          /\ UNCHANGED <<uPlane, vPlane, wrU, wrV, cu, cv>>
    /\ dst = "u" =>
          /\ uPlane' = [uPlane EXCEPT ![p][cu[p]] = tmp[Local(p)]]
          /\ wrU' = Upd(wrU, p, Logged(wrU[p], cu[p], 1))
          /\ cu' = Upd(cu, p, cu[p] + 1)
          /\ UNCHANGED <<lumaPlane, vPlane, wrY, wrV, cy, cv>>
    /\ dst = "v" =>
          /\ vPlane' = [vPlane EXCEPT ![p][cv[p]] = tmp[Local(p)]]
          /\ wrV' = Upd(wrV, p, Logged(wrV[p], cv[p], 1))
          /\ cv' = Upd(cv, p, cv[p] + 1)
          /\ UNCHANGED <<lumaPlane, uPlane, wrY, wrU, cy, cu>>

\* After the k-th statement of a loop body: the next statement, or, after the
\* fourth, the increment i += 4 and the loop test again.
Sequel(p, loop, stmt) ==
    IF k[p] = GroupBytes
    THEN /\ i' = Upd(i, p, NextCol(i[p]))
         /\ k' = Upd(k, p, 1)
         /\ blocks' = Upd(blocks, p, blocks[p] + 1)
         /\ pc' = Upd(pc, p, loop)
    ELSE /\ k' = Upd(k, p, k[p] + 1)
         /\ pc' = Upd(pc, p, stmt)
         /\ UNCHANGED <<i, blocks>>

(* ---------------------------- unpack_even ----------------------------- *)

\* for (int i = 0; i < stride; i += 32) on the NEON build,
\* for (int i = 0; i < stride; i += 4) otherwise: the loop test.
EvenLoop(p) ==
    /\ pc[p] = "even_loop"
    /\ pc' = Upd(pc, p, IF ~ColCond(i[p], stride[p]) THEN "even_ret"
                        ELSE IF neon[p] THEN "even_vld2q" ELSE "even_load")
    /\ k' = Upd(k, p, 1)
    /\ UNCHANGED <<args, packed, planes, result, outer, i, cy, cu, cv, cyuyv,
                   regs, rd, writes, calls, blocks, packed0>>

EvenLoad(p) ==
    /\ pc[p] = "even_load"
    /\ Load(p, "even_store")

EvenStore(p) ==
    /\ pc[p] = "even_store"
    /\ Store(p, EvenDst[k[p]])
    /\ Sequel(p, "even_loop", "even_load")
    /\ UNCHANGED <<args, packed, result, outer, cyuyv, regs, rd, calls,
                   packed0>>

\* uint8x16x2_t y_uv = vld2q_u8(yuyv);
EvenVld2q(p) ==
    /\ pc[p] = "even_vld2q"
    /\ y_uv' = Upd(y_uv, Local(p), Vld2(packed[p], cyuyv[p], QLanes))
    /\ rd' = Upd(rd, p, rd[p] \cup (cyuyv[p]..(cyuyv[p] + 2 * QLanes - 1)))
    /\ pc' = Upd(pc, p, "even_vst1q")
    /\ UNCHANGED <<args, packed, planes, result, outer, inner, tmp, u_v,
                   writes, calls, blocks, packed0>>

\* vst1q_u8(y, y_uv.val[0]);
EvenVst1q(p) ==
    /\ pc[p] = "even_vst1q"
    /\ lumaPlane' = Upd(lumaPlane, p,
                        Vst1(lumaPlane[p], cy[p], y_uv[Local(p)][1], QLanes))
    /\ wrY' = Upd(wrY, p, Logged(wrY[p], cy[p], QLanes))
    /\ pc' = Upd(pc, p, "even_vld2")
    /\ UNCHANGED <<args, packed, uPlane, vPlane, result, outer, inner, regs,
                   rd, wrU, wrV, calls, blocks, packed0>>

\* uint8x8x2_t u_v = vld2_u8((uint8_t *)(&y_uv.val[1]));
EvenVld2(p) ==
    /\ pc[p] = "even_vld2"
    /\ u_v' = Upd(u_v, Local(p), Vld2(y_uv[Local(p)][2], 0, DLanes))
    /\ pc' = Upd(pc, p, "even_vst1_u")
    /\ UNCHANGED <<args, packed, planes, result, outer, inner, tmp, y_uv, rd,
                   writes, calls, blocks, packed0>>

\* vst1_u8(u, u_v.val[0]);
EvenVst1U(p) ==
    /\ pc[p] = "even_vst1_u"
    /\ uPlane' = Upd(uPlane, p,
                     Vst1(uPlane[p], cu[p], u_v[Local(p)][1], DLanes))
    /\ wrU' = Upd(wrU, p, Logged(wrU[p], cu[p], DLanes))
    /\ pc' = Upd(pc, p, "even_vst1_v")
    /\ UNCHANGED <<args, packed, lumaPlane, vPlane, result, outer, inner,
                   regs, rd, wrY, wrV, calls, blocks, packed0>>

\* vst1_u8(v, u_v.val[1]);
EvenVst1V(p) ==
    /\ pc[p] = "even_vst1_v"
    /\ vPlane' = Upd(vPlane, p,
                     Vst1(vPlane[p], cv[p], u_v[Local(p)][2], DLanes))
    /\ wrV' = Upd(wrV, p, Logged(wrV[p], cv[p], DLanes))
    /\ pc' = Upd(pc, p, "even_next")
    /\ UNCHANGED <<args, packed, lumaPlane, uPlane, result, outer, inner,
                   regs, rd, wrY, wrU, calls, blocks, packed0>>

\* yuyv += 32; y += 16; u += 8; v += 8; and the increment i += 32.
EvenNext(p) ==
    /\ pc[p] = "even_next"
    /\ cyuyv' = Upd(cyuyv, p, cyuyv[p] + BlockBytes)
    /\ cy' = Upd(cy, p, cy[p] + QLanes)
    /\ cu' = Upd(cu, p, cu[p] + DLanes)
    /\ cv' = Upd(cv, p, cv[p] + DLanes)
    /\ i' = Upd(i, p, NextBlock(i[p]))
    /\ blocks' = Upd(blocks, p, blocks[p] + 1)
    /\ pc' = Upd(pc, p, "even_loop")
    /\ UNCHANGED <<args, packed, planes, result, outer, k, regs, rd, writes,
                   calls, packed0>>

(* ----------------------------- unpack_odd ----------------------------- *)

\* The statement at which the k-th statement of unpack_odd's portable loop
\* body begins: a copy to the luma plane, or a bare yuyv++.
OddStmt(j) == IF OddDst[j] = "skip" THEN "odd_skip" ELSE "odd_load"

OddLoop(p) ==
    /\ pc[p] = "odd_loop"
    /\ pc' = Upd(pc, p, IF ~ColCond(i[p], stride[p]) THEN "odd_ret"
                        ELSE IF neon[p] THEN "odd_vld2q" ELSE OddStmt(1))
    /\ k' = Upd(k, p, 1)
    /\ UNCHANGED <<args, packed, planes, result, outer, i, cy, cu, cv, cyuyv,
                   regs, rd, writes, calls, blocks, packed0>>

OddLoad(p) ==
    /\ pc[p] = "odd_load"
    /\ Load(p, "odd_store")

OddStore(p) ==
    /\ pc[p] = "odd_store"
    /\ Store(p, OddDst[k[p]])
    /\ Sequel(p, "odd_loop", OddStmt((k[p] % GroupBytes) + 1))
    /\ UNCHANGED <<args, packed, result, outer, cyuyv, regs, rd, calls,
                   packed0>>

\* yuyv++;
OddSkip(p) ==
    /\ pc[p] = "odd_skip"
    /\ cyuyv' = Upd(cyuyv, p, cyuyv[p] + 1)
    /\ Sequel(p, "odd_loop", OddStmt((k[p] % GroupBytes) + 1))
    /\ UNCHANGED <<args, packed, planes, result, outer, cy, cu, cv, regs, rd,
                   writes, calls, packed0>>

\* vld2q_u8(yuyv)
OddVld2q(p) ==
    /\ pc[p] = "odd_vld2q"
    /\ y_uv' = Upd(y_uv, Local(p), Vld2(packed[p], cyuyv[p], QLanes))
    /\ rd' = Upd(rd, p, rd[p] \cup (cyuyv[p]..(cyuyv[p] + 2 * QLanes - 1)))
    /\ pc' = Upd(pc, p, "odd_vst1q")
    /\ UNCHANGED <<args, packed, planes, result, outer, inner, tmp, u_v,
                   writes, calls, blocks, packed0>>

\* vst1q_u8(y, vld2q_u8(yuyv).val[0]);
OddVst1q(p) ==
    /\ pc[p] = "odd_vst1q"
    /\ lumaPlane' = Upd(lumaPlane, p,
                        Vst1(lumaPlane[p], cy[p], y_uv[Local(p)][1], QLanes))
    /\ wrY' = Upd(wrY, p, Logged(wrY[p], cy[p], QLanes))
    /\ pc' = Upd(pc, p, "odd_next")
    /\ UNCHANGED <<args, packed, uPlane, vPlane, result, outer, inner, regs,
                   rd, wrU, wrV, calls, blocks, packed0>>

\* yuyv += 32; y += 16; and the increment i += 32.
OddNext(p) ==
    /\ pc[p] = "odd_next"
    /\ cyuyv' = Upd(cyuyv, p, cyuyv[p] + BlockBytes)
    /\ cy' = Upd(cy, p, cy[p] + QLanes)
    /\ i' = Upd(i, p, NextBlock(i[p]))
    /\ blocks' = Upd(blocks, p, blocks[p] + 1)
    /\ pc' = Upd(pc, p, "odd_loop")
    /\ UNCHANGED <<args, packed, planes, result, outer, k, cu, cv, regs, rd,
                   writes, calls, packed0>>

(* --------------------------- specifications --------------------------- *)

Step(p) ==
    \/ RowLoop(p) \/ EvenReturn(p) \/ OddReturn(p)
    \/ EvenLoop(p) \/ EvenLoad(p) \/ EvenStore(p)
    \/ EvenVld2q(p) \/ EvenVst1q(p) \/ EvenVld2(p) \/ EvenVst1U(p)
    \/ EvenVst1V(p) \/ EvenNext(p)
    \/ OddLoop(p) \/ OddLoad(p) \/ OddStore(p) \/ OddSkip(p)
    \/ OddVld2q(p) \/ OddVst1q(p) \/ OddNext(p)

\* Invocations run concurrently; their steps interleave in any order.
Next == \E p \in Procs : Step(p)

Spec == Init /\ [][Next]_vars

\* Every access the model performs is to memory the model holds.
InArena ==
    \A p \in Procs :
        /\ rd[p] \subseteq DOMAIN packed[p]
        /\ pc[p] \in {"even_store", "odd_store", "even_vst1q", "odd_vst1q"}
              => cy[p] \in DOMAIN lumaPlane[p]
        /\ pc[p] \in {"even_vst1q", "odd_vst1q"}
              => cy[p] + QLanes - 1 \in DOMAIN lumaPlane[p]
        /\ pc[p] \in {"even_store"} =>
              /\ cu[p] \in DOMAIN uPlane[p]
              /\ cv[p] \in DOMAIN vPlane[p]
        /\ pc[p] \in {"even_vst1_u", "even_vst1_v"} =>
              /\ cu[p] + DLanes - 1 \in DOMAIN uPlane[p]
              /\ cv[p] + DLanes - 1 \in DOMAIN vPlane[p]

(* ----------------------- two calls, in sequence ----------------------- *)

\* Offsets at which the source of the second call may differ from the source
\* of the first: chroma bytes of odd rows (offset s+1, s+3, 2s-1 of row 1, and
\* the first and last chroma byte of the last row), and, for comparison, a
\* chroma byte of an even row (1) and a luma byte of an odd row (s).
PerturbAt(s, h) ==
    {1, s, s + 1, s + 3, 2 * s - 1, (h - 1) * s + 1, h * s - 1}

PairHeights == {2 * j : j \in 1..PairMaxPairs}
PairStrides ==
    {GroupBytes, 2 * GroupBytes, BlockBytes + GroupBytes}
        \cup {BlockBytes * b : b \in 1..PairMaxBlocks}

\* The same frame converted twice, by the portable build and then by the
\* vectorized build; or two frames that differ in one byte converted by the
\* same build.  The output planes of the two calls start with different
\* content.
InitSeq ==
    \E s \in PairStrides, h \in PairHeights, c \in Contents :
        \/ Setup(<<"row_loop", "waiting">>, <<FALSE, TRUE>>, <<s, s>>, <<h, h>>,
                 <<Content(c, PackedLen(s, h)), Content(c, PackedLen(s, h))>>,
                 <<0, 255>>)
        \/ \E n \in BOOLEAN, q \in PerturbAt(s, h) :
              /\ c = "tagged"
              /\ Setup(<<"row_loop", "waiting">>, <<n, n>>, <<s, s>>, <<h, h>>,
                       <<Content(c, PackedLen(s, h)),
                         Perturbed(Content(c, PackedLen(s, h)), q)>>,
                       <<0, 255>>)

\* The caller calls the waiting invocation when the other has returned.
Begin(p) ==
    /\ pc[p] = "waiting"
    /\ \A q \in Procs \ {p} : pc[q] = "done"
    /\ pc' = Upd(pc, p, "row_loop")
    /\ result' = Upd(result, p, "running")
    /\ UNCHANGED <<args, packed, planes, outer, inner, regs, rd, writes,
                   calls, blocks, packed0>>

NextSeq == \E p \in Procs : Step(p) \/ Begin(p)

SpecSeq == InitSeq /\ [][NextSeq]_vars

(* ------------------------ two calls, concurrent ----------------------- *)

ConcHeights == 1..ConcMaxHeight
ConcStrides(n) ==
    IF n THEN {BlockBytes} ELSE {GroupBytes * g : g \in 1..ConcMaxGroups}
ConcContents ==
    {<<"tagged", "solid">>, <<"tagged", "tagged">>, <<"minimal", "tagged">>}

\* Two calls of the same build, each on buffers of its own.
InitConc ==
    \E n \in BOOLEAN, h \in ConcHeights, c \in ConcContents :
        \E s1 \in ConcStrides(n), s2 \in ConcStrides(n) :
            Setup(<<"row_loop", "row_loop">>, <<n, n>>, <<s1, s2>>, <<h, h>>,
                  <<Content(c[1], PackedLen(s1, h)),
                    Content(c[2], PackedLen(s2, h))>>,
                  <<0, 255>>)

SpecConc == InitConc /\ [][Next]_vars

(* ------------------------- notions of the claims ---------------------- *)

Done(p) == pc[p] = "done"

\* The frame the caller describes: width = stride / 2 pixels per row.
Width(p) == CDiv(stride[p], 2)
ChromaWidth(p) == CDiv(Width(p), 2)
ChromaHeight(p) == CDiv(height[p], 2)

\* Bytes the caller allocated for the source, the luma plane and each chroma
\* plane.
PackedSize(p) == stride[p] * height[p]
LumaSize(p) == Width(p) * height[p]
ChromaSize(p) == ChromaWidth(p) * ChromaHeight(p)

\* Width and height even and positive (stride = 2 * width).
ValidGeometry(p) ==
    /\ stride[p] > 0 /\ height[p] > 0
    /\ Width(p) % 2 = 0 /\ height[p] % 2 = 0

\* The precondition of the vectorized strategy.
BlockAligned(p) == stride[p] % BlockBytes = 0

Ceil(a, b) == (a + b - 1) \div b

InEven(p) ==
    pc[p] \in {"even_loop", "even_load", "even_store", "even_vld2q",
               "even_vst1q", "even_vld2", "even_vst1_u", "even_vst1_v",
               "even_next", "even_ret"}
InOdd(p) ==
    pc[p] \in {"odd_loop", "odd_load", "odd_store", "odd_skip", "odd_vld2q",
               "odd_vst1q", "odd_next", "odd_ret"}

\* The planes a conversion of the frame in packed[p] must produce.
LumaIs(p) ==
    \A r \in 0..(height[p] - 1), c \in 0..(Width(p) - 1) :
        lumaPlane[p][r * Width(p) + c] = packed[p][r * stride[p] + 2 * c]
ChromaIs(p) ==
    \A r \in 0..(ChromaHeight(p) - 1), c \in 0..(ChromaWidth(p) - 1) :
        /\ uPlane[p][r * ChromaWidth(p) + c]
              = packed[p][2 * r * stride[p] + 4 * c + 1]
        /\ vPlane[p][r * ChromaWidth(p) + c]
              = packed[p][2 * r * stride[p] + 4 * c + 3]

\* packed[p] holds the minimal 4x2 frame of the specification.
IsMinimalFrame(p) ==
    /\ stride[p] = 8 /\ height[p] = 2
    /\ \A a \in 0..15 : packed[p][a] = MinimalFrame[a + 1]

(* ------------------------------- claims ------------------------------- *)

\* C1: on the portable path, for every even width and even height (both
\* positive, stride = 2 * width) and every source content, when the call has
\* returned luma[r*width + c] = src[r*stride + 2c] for every pixel, and
\* U[r*(width/2) + c] = src[2r*stride + 4c + 1], V[r*(width/2) + c] =
\* src[2r*stride + 4c + 3] for every 2x2 block; on the minimal 4x2 frame the
\* planes are [100,101,102,103,110,111,112,113], [128,128] and [64,64].
C1_PortableMapping ==
    \A p \in Procs :
        (Done(p) /\ ~neon[p] /\ ValidGeometry(p)) =>
            /\ LumaIs(p)
            /\ ChromaIs(p)
            /\ IsMinimalFrame(p) =>
                  /\ [a \in 0..7 |-> lumaPlane[p][a]]
                        = [a \in 0..7 |->
                              <<100, 101, 102, 103, 110, 111, 112, 113>>[a + 1]]
                  /\ uPlane[p][0] = 128 /\ uPlane[p][1] = 128
                  /\ vPlane[p][0] = 64 /\ vPlane[p][1] = 64

\* The portable path has converted the minimal 4x2 frame.
C1_Witness ==
    /\ Done(1) /\ ~neon[1] /\ IsMinimalFrame(1)
    /\ lumaPlane[1][5] = 111 /\ uPlane[1][1] = 128 /\ vPlane[1][0] = 64

\* Every byte of the three planes has been written exactly once.
WrittenOnce(p) ==
    /\ \A a \in 0..(LumaSize(p) - 1) : wrY[p][a] = 1
    /\ \A a \in 0..(ChromaSize(p) - 1) : wrU[p][a] = 1 /\ wrV[p][a] = 1

\* C2 as claimed: for every valid (width, height) (both even and positive,
\* stride = 2 * width) one call writes every byte of the luma plane and of
\* each chroma plane exactly once.
C2_Original ==
    \A p \in Procs : (Done(p) /\ ValidGeometry(p)) => WrittenOnce(p)

\* C2 as amended: the same, for the geometries that also meet the vectorized
\* strategy's precondition (stride a multiple of 32) when the build is the
\* vectorized one.
C2_WrittenOnce ==
    \A p \in Procs :
        (Done(p) /\ ValidGeometry(p) /\ (neon[p] => BlockAligned(p)))
            => WrittenOnce(p)

\* A vectorized call on two rows of one block each has returned, every byte
\* of its planes written once.
C2_Witness ==
    /\ Done(1) /\ neon[1] /\ stride[1] = BlockBytes /\ height[1] = 2
    /\ wrY[1][2 * QLanes - 1] = 1 /\ wrU[1][DLanes - 1] = 1

\* C5 as claimed: a call with odd width or odd height is rejected with
\* InvalidGeometry before any write to the luma, U or V plane.
C5_Rejected ==
    \A p \in Procs :
        (Done(p) /\ stride[p] > 0 /\ height[p] > 0
            /\ (Width(p) % 2 = 1 \/ height[p] % 2 = 1)) =>
            /\ result[p] = "InvalidGeometry"
            /\ \A a \in DOMAIN wrY[p] : wrY[p][a] = 0
            /\ \A a \in DOMAIN wrU[p] : wrU[p][a] = 0
            /\ \A a \in DOMAIN wrV[p] : wrV[p][a] = 0

\* C7: with even positive height and stride a multiple of 4, at the loop test
\* of row pair k the luma pointer is at k*stride, the U and V pointers at
\* k*(stride/4) and the source pointer at 2k*stride; the even row is unpacked
\* first, then the luma pointer is stride/2 further, the chroma pointers
\* stride/4 and the source pointer stride; the odd row moves the luma pointer
\* by stride/2 and the source pointer by stride and leaves the chroma pointers;
\* height/2 pairs are processed.
C7_PointerProgress ==
    \A p \in Procs :
        (height[p] > 0 /\ height[p] % 2 = 0 /\ stride[p] % 4 = 0) =>
            LET kk == row[p] \div 2
                s == stride[p] IN
            /\ row[p] % 2 = 0 /\ row[p] <= height[p]
            /\ (pc[p] = "row_loop" \/ InEven(p)) =>
                  /\ y[p] = kk * s
                  /\ u[p] = kk * CDiv(s, 4) /\ v[p] = kk * CDiv(s, 4)
                  /\ yuyv[p] = 2 * kk * s
            /\ pc[p] = "row_loop" => evens[p] = kk /\ odds[p] = kk
            /\ InEven(p) => evens[p] = kk + 1 /\ odds[p] = kk
            /\ InOdd(p) =>
                  /\ y[p] = kk * s + CDiv(s, 2)
                  /\ u[p] = (kk + 1) * CDiv(s, 4)
                  /\ v[p] = (kk + 1) * CDiv(s, 4)
                  /\ yuyv[p] = (2 * kk + 1) * s
                  /\ evens[p] = kk + 1 /\ odds[p] = kk + 1
            /\ Done(p) =>
                  /\ row[p] = height[p]
                  /\ evens[p] = height[p] \div 2 /\ odds[p] = height[p] \div 2

\* The odd row of the second pair of a four-row frame is being unpacked.
C7_Witness ==
    /\ InOdd(1) /\ height[1] = 4 /\ stride[1] = 8 /\ row[1] = 2
    /\ y[1] = 12 /\ u[1] = 4 /\ yuyv[1] = 24

\* C8: for valid geometry the portable path reads no source byte outside
\* 0..stride*height-1, writes no luma byte outside 0..width*height-1 and no
\* U or V byte outside 0..(width/2)*(height/2)-1, and leaves the source as it
\* was.
C8_PortableFrame ==
    \A p \in Procs :
        (~neon[p] /\ ValidGeometry(p)) =>
            /\ rd[p] \subseteq 0..(PackedSize(p) - 1)
            /\ \A a \in DOMAIN wrY[p] :
                  wrY[p][a] > 0 => a \in 0..(LumaSize(p) - 1)
            /\ \A a \in DOMAIN wrU[p] :
                  wrU[p][a] > 0 => a \in 0..(ChromaSize(p) - 1)
            /\ \A a \in DOMAIN wrV[p] :
                  wrV[p][a] > 0 => a \in 0..(ChromaSize(p) - 1)
            /\ packed[p] = packed0[p]

\* A portable call on a 4x4 frame has returned, having read the last source
\* byte it may read and written the last byte of each plane.
C8_Witness ==
    /\ Done(1) /\ ~neon[1] /\ stride[1] = 8 /\ height[1] = 4
    /\ 30 \in rd[1] /\ wrY[1][15] = 1 /\ wrU[1][3] = 1 /\ wrV[1][3] = 1

\* The row call that has just ended at "even_ret" or "odd_ret" began with
\* the caller's pointers, which the caller has not advanced yet.  It has read
\* the n source bytes from its row start on and written the n/2 luma bytes
\* from its luma row start on.
RowCallTouched(p, n) ==
    /\ cyuyv[p] - yuyv[p] = n
    /\ cy[p] - y[p] = n \div 2
    /\ \A a \in yuyv[p]..(yuyv[p] + n - 1) : a \in rd[p]
    /\ \A a \in y[p]..(y[p] + n \div 2 - 1) : wrY[p][a] >= 1

\* C9: in the vectorized path a row call on a row of stride > 0 bytes runs
\* ceil(stride/32) whole blocks: it reads 32*ceil(stride/32) source bytes and
\* writes 16*ceil(stride/32) luma bytes, and 8*ceil(stride/32) bytes to each of
\* U and V for an even row.  With stride a multiple of 32 that is the row and
\* no more; otherwise every row call goes past the end of its row, and when the
\* call has returned bytes past the end of the source buffer and of each
\* output plane have been accessed.
C9_WholeBlocks ==
    \A p \in Procs :
        (neon[p] /\ stride[p] > 0) =>
            LET b == Ceil(stride[p], BlockBytes) IN
            /\ pc[p] \in {"even_ret", "odd_ret"} =>
                  /\ blocks[p] = b
                  /\ RowCallTouched(p, BlockBytes * b)
                  /\ BlockAligned(p) => BlockBytes * b = stride[p]
                  /\ ~BlockAligned(p) =>
                        /\ cyuyv[p] > yuyv[p] + stride[p]
                        /\ cy[p] > y[p] + Width(p)
            /\ pc[p] = "even_ret" =>
                  /\ cu[p] - u[p] = DLanes * b /\ cv[p] - v[p] = DLanes * b
                  /\ \A a \in u[p]..(u[p] + DLanes * b - 1) :
                        wrU[p][a] >= 1 /\ wrV[p][a] >= 1
                  /\ ~BlockAligned(p) => cu[p] > u[p] + CDiv(stride[p], 4)
            /\ (Done(p) /\ height[p] > 0 /\ ~BlockAligned(p)) =>
                  /\ \E a \in rd[p] : a >= PackedSize(p)
                  /\ \E a \in DOMAIN wrY[p] :
                        a >= LumaSize(p) /\ wrY[p][a] >= 1
                  /\ \E a \in DOMAIN wrU[p] :
                        a >= ChromaSize(p) /\ wrU[p][a] >= 1
                  /\ \E a \in DOMAIN wrV[p] :
                        a >= ChromaSize(p) /\ wrV[p][a] >= 1
            /\ (Done(p) /\ ValidGeometry(p) /\ BlockAligned(p)) =>
                  /\ rd[p] = 0..(PackedSize(p) - 1)
                  /\ \A a \in DOMAIN wrY[p] :
                        wrY[p][a] >= 1 => a < LumaSize(p)

\* A vectorized even-row call on a row of 36 bytes has run two blocks.
C9_Witness ==
    /\ pc[1] = "even_ret" /\ neon[1]
    /\ stride[1] = BlockBytes + GroupBytes
    /\ blocks[1] = 2 /\ cyuyv[1] - yuyv[1] = 2 * BlockBytes

\* No byte of any output plane has been written.
NothingWritten(p) ==
    /\ \A a \in DOMAIN wrY[p] : wrY[p][a] = 0
    /\ \A a \in DOMAIN wrU[p] : wrU[p][a] = 0
    /\ \A a \in DOMAIN wrV[p] : wrV[p][a] = 0

\* C10: the call processes ceil(height/2) row pairs when height > 0 and none
\* when height <= 0.  With height <= 0 or stride <= 0 it writes no byte of any
\* plane and returns without error.  With odd height the odd row of the last
\* pair is still unpacked: rows 0..height of the source (height+1 rows) are
\* read and rows 0..height of the luma plane are written.
C10_RowPairs ==
    \A p \in Procs :
        Done(p) =>
            LET n == IF height[p] > 0 THEN Ceil(height[p], 2) ELSE 0 IN
            /\ evens[p] = n /\ odds[p] = n
            /\ (height[p] <= 0 \/ stride[p] <= 0) =>
                  /\ NothingWritten(p)
                  /\ rd[p] = {}
                  /\ result[p] = "returned"
            /\ (height[p] > 0 /\ height[p] % 2 = 1 /\ stride[p] > 0) =>
                  /\ \A r \in 0..height[p] :
                        /\ r * stride[p] \in rd[p]
                        /\ wrY[p][r * Width(p)] >= 1
                  /\ yuyv[p] = (height[p] + 1) * stride[p]
                  /\ y[p] = (height[p] + 1) * Width(p)

\* A call with height 3 has returned after unpacking four rows.
C10_Witness ==
    /\ Done(1) /\ height[1] = 3 /\ stride[1] = 8
    /\ evens[1] = 2 /\ odds[1] = 2 /\ 24 \in rd[1] /\ wrY[1][12] = 1

\* The two calls left the same bytes in the frame's three planes.
SamePlanes ==
    /\ \A a \in 0..(LumaSize(1) - 1) : lumaPlane[1][a] = lumaPlane[2][a]
    /\ \A a \in 0..(ChromaSize(1) - 1) :
          uPlane[1][a] = uPlane[2][a] /\ vPlane[1][a] = vPlane[2][a]

SameGeometry == stride[1] = stride[2] /\ height[1] = height[2]

\* Offset a of the source is a chroma byte (odd offset in its row) of an odd
\* row.
OddRowChroma(a, s) == (a \div s) % 2 = 1 /\ (a % s) % 2 = 1

\* C3: the chroma planes hold the chroma bytes of the even source rows 2r and
\* do not depend on the odd rows: two frames that differ only in chroma bytes
\* of odd rows convert to the same three planes, and no step of the odd-row
\* unpacker writes to the U or the V plane.
C3_EvenRowChroma ==
    /\ [](\A p \in Procs :
            (Done(p) /\ ValidGeometry(p) /\ (neon[p] => BlockAligned(p)))
                => ChromaIs(p))
    /\ []((Done(1) /\ Done(2) /\ neon[1] = neon[2] /\ SameGeometry
            /\ ValidGeometry(1) /\ (neon[1] => BlockAligned(1))
            /\ \A a \in DOMAIN packed[1] :
                  packed[1][a] # packed[2][a] => OddRowChroma(a, stride[1]))
           => SamePlanes)
    /\ [][\A p \in Procs :
            InOdd(p) => /\ uPlane'[p] = uPlane[p] /\ vPlane'[p] = vPlane[p]
                        /\ wrU'[p] = wrU[p] /\ wrV'[p] = wrV[p]]_vars

\* Two frames that differ in the last chroma byte of the last (odd) row have
\* been converted to the same planes.
C3_Witness ==
    /\ Done(1) /\ Done(2) /\ neon[1] = neon[2]
    /\ stride[1] = 8 /\ height[1] = 4
    /\ packed[1][31] # packed[2][31]
    /\ SamePlanes

\* C4: for every geometry that meets all preconditions (width and height even
\* and positive, stride = 2 * width, stride a multiple of 32) and every source
\* content, the vectorized path and the portable path leave byte-identical
\* luma, U and V planes.
C4_PathsAgree ==
    (Done(1) /\ Done(2) /\ neon[1] # neon[2] /\ SameGeometry
        /\ packed[1] = packed[2]
        /\ ValidGeometry(1) /\ BlockAligned(1))
       => SamePlanes

\* Both builds have converted the same frame of 32 x 2 pixels.
C4_Witness ==
    /\ Done(1) /\ Done(2) /\ ~neon[1] /\ neon[2]
    /\ stride[1] = 2 * BlockBytes /\ stride[2] = 2 * BlockBytes
    /\ height[1] = 2 /\ height[2] = 2
    /\ packed[1] = packed[2] /\ packed[1][5] = 5
    /\ SamePlanes /\ uPlane[2][15] = 61

\* C6: two invocations whose byte reads and writes interleave in any order,
\* each on buffers of its own, leave in every plane what each would leave
\* running alone: the converted frame, every byte written once, the bytes
\* after the frame and the source as they were.
C6_Concurrent ==
    \A p \in Procs :
        (Done(p) /\ ValidGeometry(p) /\ (neon[p] => BlockAligned(p))) =>
            /\ LumaIs(p) /\ ChromaIs(p)
            /\ WrittenOnce(p)
            /\ \A a \in DOMAIN lumaPlane[p] :
                  a >= LumaSize(p) => lumaPlane[p][a] = (p - 1) * 255
            /\ \A a \in DOMAIN uPlane[p] :
                  a >= ChromaSize(p) =>
                      uPlane[p][a] = (p - 1) * 255 /\ vPlane[p][a] = (p - 1) * 255
            /\ packed[p] = packed0[p]

\* The first invocation has returned while the second, which started before
\* it ended, is in the middle of a row.
C6_Witness ==
    /\ Done(1) /\ pc[2] = "even_store" /\ ValidGeometry(1)
    /\ packed[1][1] # packed[2][1]
    /\ lumaPlane[2][0] = packed[2][0]

====
